---- MODULE Spec2Model ----
(***************************************************************************)
(* UDP file transfer: the enhanced client and server of src/Source, and    *)
(* the first client and server of src/client and src/server.               *)
(*                                                                         *)
(* The client (src/Source/client.py) downloads one catalogued file in      *)
(* num_parts byte ranges, one socket, one receive thread and one server    *)
(* session per part.  The server (src/Source/server.py) has one receiver   *)
(* loop, one processor thread per client key and one transfer worker per   *)
(* DOWNLOAD request.                                                       *)
(*                                                                         *)
(* Timing: the timed steps (the 5 s receive timeout, the 1 s poll and the  *)
(* 120 s limit of download_part, the 30 s delay of cleanup_transfer) are   *)
(* taken only when no datagram can be delivered and no thread can take an  *)
(* untimed step, which lasts milliseconds (predicate Busy), and in the     *)
(* order of their delays: poll (1 s), receive timeouts (5 s each, 25 s in  *)
(* all), cleanup (30 s), the limit of download_part (120 s).               *)
(* shutdown_event (Ctrl+C) is never set.                                   *)
(* Besides the whole system (Spec, and SpecFair with fair threads) the      *)
(* module has the server facing any client (SpecServer), one receive       *)
(* thread facing any order of arrival (SpecReceiver), and the pure         *)
(* computations on their own (SpecTiling, SpecChecksum).  Only there do    *)
(* datagrams arrive that the peer did not send for the transfer at hand:   *)
(* packets of an earlier download on the same port, bytes that are no      *)
(* packet at all.                                                          *)
(* A datagram channel is a FIFO on which the transport may lose, duplicate *)
(* or corrupt the packet at its head, at most MaxFaults times in a run.    *)
(* hashlib.md5 is modelled as a collision-free digest and base64 as the    *)
(* pair of inverse library functions it is: a packet carries its bytes.    *)
(* SpecWatch is the scan loop watch_input_file of the enhanced client with  *)
(* download_file reduced to its outcome.  SpecBasic is UDPServer and        *)
(* UDPClient: stop-and-wait per chunk over one socket on either side; its   *)
(* transport keeps order and loses nothing, but an ACK may be late.         *)
(***************************************************************************)
EXTENDS Integers, Sequences, FiniteSets, Bags, TLC

\* ---- bounds of the model ------------------------------------------------
\* Largest catalogued file size, in bytes.
MaxSize == 3
\* Faults (loss, duplication, corruption) the transport may inject in a run.
MaxFaults == 1
\* Largest file size and configured parallelism drawn by the tiling loop.
MaxTileSize == 12
MaxTileCfg == 5
\* Datagrams an arbitrary client sends to the server.
MaxRequests == 3
\* Datagrams delivered to a receive thread facing an arbitrary network.
MaxDeliver == 3
\* Longest payload and largest byte value drawn by the checksum check.
MaxPayloadLen == 2
MaxByte == 2
\* Scan cycles of watch_input_file and modifications of input.txt in a run.
MaxCycles == 3
MaxTouches == 2
\* UDPServer/UDPClient: largest file, and the packets sent again in a run.
MaxFileSize == 3
MaxResends == 1

\* ---- program constants --------------------------------------------------
\* MAX_PARALLEL_DOWNLOADS of the client, scaled from 4 parts to 2; the
\* tiling loop below runs with the source's min(configuration, 4).
MAX_PARALLEL_DOWNLOADS == 2
\* CHUNK_SIZE of the server, scaled from 16384 bytes to 2.
CHUNK_SIZE == 2
MAX_TIMEOUTS == 5

FileName == "f"

VARIABLES
    \* the server's disk and the catalogue
    size, exists,
    \* client: download_file
    dfpc, outFile, processed_files, dfResult,
    \* client: download_part / receive_thread, one per part
    ppc, rthread, received_data, total_chunks_ref, completion_event,
    timeout_count, progress, partResult, recvLog,
    \* transport
    s2c, c2s, faultLog,
    \* server
    client_queues, active_transfers, transfer_chunks, worker, lock,
    \* history: packets each worker sent, ACK datagrams the server received,
    \* accesses to the shared maps made outside "with lock"
    \* (recvLog: datagrams each receive thread processed)
    sent, ackRecv, unlocked,
    \* the range loop of download_file on its own
    t_size, t_cfg, t_i, t_offsets, t_lengths,
    \* one DATA payload from hashlib.md5 on the server to verify_checksum
    ck_p, ck_q, ck_pc, ck_pkt, ck_res,
    \* the server facing any client: datagrams that client has sent
    requests,
    \* watch_input_file: modification time and lines of input.txt,
    \* last_check_time, scan cycles run, download_file calls per file
    w_mtime, w_listed, last_check_time, w_cycle, w_attempts,
    \* UDPServer and UDPClient (src/server, src/client): the file, the
    \* datagrams queued at the server's and at the client's socket, the
    \* send_file_chunk workers, the download_chunk threads, download_file
    u_file_size, u_exists, u_srv_sock, u_cli_sock, u_worker, u_thread, u_dfpc,
    \* history: the highest seq_num of its own chunk each thread has written;
    \* the packets the workers have sent again so far
    u_last, u_resends

clientVars == <<dfpc, outFile, processed_files, dfResult, ppc, rthread,
    received_data, total_chunks_ref, completion_event, timeout_count,
    progress, partResult, recvLog>>
netVars == <<s2c, c2s, faultLog>>
serverVars == <<client_queues, active_transfers, transfer_chunks, worker,
    lock, sent, ackRecv, unlocked>>
ckVars == <<ck_p, ck_q, ck_pc, ck_pkt, ck_res>>
watchVars == <<w_mtime, w_listed, last_check_time, w_cycle, w_attempts>>
basicVars == <<u_file_size, u_exists, u_srv_sock, u_cli_sock, u_worker,
               u_thread, u_dfpc, u_last, u_resends>>
auxVars == <<watchVars, basicVars>>
tileVars == <<t_size, t_cfg, t_i, t_offsets, t_lengths, ckVars, requests, auxVars>>
vars == <<size, exists, clientVars, netVars, serverVars, tileVars>>

Min(a, b) == IF a < b THEN a ELSE b

\* ---- download_file: the byte ranges -------------------------------------
NumPartsOf(cfg) == Min(cfg, 4)

PartSize(sz, np) == sz \div np

PartOffset(i, sz, np) == i * PartSize(sz, np)

PartLengthNoRemainder(i, sz, np) == PartSize(sz, np)

PartLength(i, sz, np) ==
    IF i < np - 1 THEN PartSize(sz, np) ELSE sz - i * PartSize(sz, np)

num_parts == NumPartsOf(MAX_PARALLEL_DOWNLOADS)
Parts == 0 .. (num_parts - 1)

\* ---- the source file and its chunks -------------------------------------
\* Byte i of the source file is i (1-based, never 0); a hole of the
\* pre-sized output file is 0.
FileBytes == [i \in 1 .. size |-> i]

\* A digest that adds the bytes up.
ByteSum(data) ==
    LET RECURSIVE Go(_)
        Go(k) == IF k = 0 THEN 0 ELSE data[k] + Go(k - 1)
    IN Go(Len(data))

\* hashlib.md5(data).hexdigest(): a digest without collisions on the
\* payloads of the model (bytes 0 .. MaxSize + 1, written positionally).
Md5(data) ==
    LET RECURSIVE Go(_)
        Go(k) == IF k = 0 THEN 1 ELSE data[k] + 1 + (MaxSize + 8) * Go(k - 1)
    IN Go(Len(data))

\* base64.b64encode(data).decode("utf-8") and base64.b64decode: a payload
\* travels as text, each byte moved into the range of the text alphabet.
b64encode(data) == [i \in 1 .. Len(data) |-> data[i] + 64]

b64decode(text) == [i \in 1 .. Len(text) |-> text[i] - 64]

verify_checksum_always(data, expected_checksum) == TRUE

verify_checksum(data, expected_checksum) == Md5(data) = expected_checksum

\* f.seek(offset), then the seq-th f.read(chunk_size).
ReadChunk(offset, seq) ==
    LET from == offset + seq * CHUNK_SIZE
        to == Min(from + CHUNK_SIZE, size)
    IN IF from >= size THEN <<>> ELSE SubSeq(FileBytes, from + 1, to)

\* A count that is one too many when the bytes fill their chunks exactly.
TotalChunksPlusOne(offset) == (size - offset) \div CHUNK_SIZE + 1

TotalChunks(offset) == ((size - offset) + CHUNK_SIZE - 1) \div CHUNK_SIZE

\* ---- packets ------------------------------------------------------------
Packet(type, sequence, data, total_chunks, checksum, offset) ==
    [type |-> type, file_name |-> FileName, sequence |-> sequence,
     data |-> data, total_chunks |-> total_chunks, checksum |-> checksum,
     offset |-> offset]

StartPacket(total) == Packet("START", 0, <<>>, total, 0, -1)
DataPacket(seq, chunk, checksum) == Packet("DATA", seq, chunk, -1, checksum, -1)
EndPacket(total) == Packet("END", total, <<>>, -1, 0, -1)
ErrorPacket == Packet("ERROR", 0, <<>>, -1, 0, -1)
AckPacket(seq) == Packet("ACK", seq, <<>>, -1, 0, -1)
NackPacket(seq) == Packet("NACK", seq, <<>>, -1, 0, -1)
DownloadPacket(offset) == Packet("DOWNLOAD", 0, <<>>, -1, 0, offset)

\* A datagram that is not the JSON text of a packet, with its raw bytes:
\* parse_packet and parse_response return None for it.
Raw(bytes) == Packet("RAW", 0, bytes, -1, 0, -1)

\* An empty datagram, and one of undecodable bytes.
RawDatagrams == {Raw(<<>>), Raw(<<0>>)}

Parses(data) == data.type # "RAW"

PROTO_CONST == {"START", "DATA", "END", "ACK", "NACK", "ERROR"}
REQUEST_CONST == {"LIST", "DOWNLOAD"}

\* ---- transport ----------------------------------------------------------
FaultsLeft == BagCardinality(faultLog) < MaxFaults

\* A datagram of the server to the socket of part p; a closed socket
\* receives nothing, and nothing reads a socket whose receive thread is gone.
SendToClient(ch, p, pkts) ==
    IF ppc[p] = "waiting" /\ rthread[p] = "running"
    THEN [ch EXCEPT ![p] = @ \o pkts] ELSE ch

\* The transport damages a DATA payload in place (byte i becomes 0); the
\* checksum field travels unchanged.
Corrupted(pkt, i) == [pkt EXCEPT !.data = [@ EXCEPT ![i] = 0]]

\* ---- client: receive_thread ---------------------------------------------
SumLens(rd) ==
    LET RECURSIVE Go(_)
        Go(S) == IF S = {} THEN 0
                 ELSE LET k == CHOOSE x \in S : TRUE
                      IN Len(rd[k]) + Go(S \ {k})
    IN Go(DOMAIN rd)

\* received_data[sequence] = chunk_data
StoreChunk(rd, sequence, chunk_data) ==
    [s \in (DOMAIN rd) \cup {sequence} |->
        IF s = sequence THEN chunk_data ELSE rd[s]]

NewProgressAccumulate(old, rd, chunk_data) == <<old[1] + Len(chunk_data), old[2]>>

\* received_bytes = sum(len(chunk) ...); progress[part_num] = (received_bytes, total)
NewProgress(old, rd, chunk_data) == <<SumLens(rd), old[2]>>

\* total_chunks_ref[0] > 0 and len(received_data) >= total_chunks_ref[0]
HaveAllChunks(total, rd) == total > 0 /\ Cardinality(DOMAIN rd) >= total

\* A total that adds up over the START packets received.
StartTotalAdded(old, pkt) == old + pkt.total_chunks

\* total_chunks = packet.get('total_chunks', -1); total_chunks_ref[0] = total_chunks
StartTotal(old, pkt) == pkt.total_chunks

\* The receive thread of part p takes one datagram off its socket: an empty
\* one counts as a timeout, one that does not parse is skipped.
Receive(p, pkt) ==
    /\ recvLog' = [recvLog EXCEPT ![p] = Append(@, pkt)]
    /\ timeout_count' = [timeout_count EXCEPT
          ![p] = IF Parses(pkt) THEN 0 ELSE IF pkt.data = <<>> THEN @ + 1 ELSE @]
    /\ CASE ~Parses(pkt) ->
              /\ rthread' = [rthread EXCEPT
                    ![p] = IF pkt.data = <<>> /\ timeout_count[p] + 1 >= MAX_TIMEOUTS
                           THEN "exited" ELSE @]
              /\ UNCHANGED <<received_data, progress, total_chunks_ref,
                             completion_event, c2s>>
         [] pkt.type = "START" ->
              /\ total_chunks_ref' = [total_chunks_ref EXCEPT ![p] = StartTotal(@, pkt)]
              /\ c2s' = [c2s EXCEPT ![p] = Append(@, AckPacket(0))]
              /\ UNCHANGED <<received_data, progress, completion_event, rthread>>
         [] pkt.type = "DATA" /\ verify_checksum(pkt.data, pkt.checksum) ->
              /\ c2s' = [c2s EXCEPT ![p] = Append(@, AckPacket(pkt.sequence))]
              /\ received_data' = [received_data EXCEPT
                    ![p] = StoreChunk(@, pkt.sequence, pkt.data)]
              /\ progress' = [progress EXCEPT
                    ![p] = NewProgress(@, received_data'[p], pkt.data)]
              /\ UNCHANGED <<total_chunks_ref, completion_event, rthread>>
         [] pkt.type = "DATA" /\ ~verify_checksum(pkt.data, pkt.checksum) ->
              /\ c2s' = [c2s EXCEPT ![p] = Append(@, NackPacket(pkt.sequence))]
              /\ UNCHANGED <<received_data, progress, total_chunks_ref,
                             completion_event, rthread>>
         [] pkt.type = "END" ->
              /\ c2s' = [c2s EXCEPT ![p] = Append(@, AckPacket(-1))]
              /\ IF HaveAllChunks(total_chunks_ref[p], received_data[p])
                 THEN /\ completion_event' = [completion_event EXCEPT ![p] = TRUE]
                      /\ rthread' = [rthread EXCEPT ![p] = "exited"]
                 ELSE UNCHANGED <<completion_event, rthread>>
              /\ UNCHANGED <<received_data, progress, total_chunks_ref>>
         [] pkt.type = "ERROR" ->
              /\ completion_event' = [completion_event EXCEPT ![p] = TRUE]
              /\ rthread' = [rthread EXCEPT ![p] = "exited"]
              /\ UNCHANGED <<received_data, progress, total_chunks_ref, c2s>>

Receiving(p) ==
    /\ ppc[p] = "waiting"
    /\ rthread[p] = "running"
    /\ s2c[p] # <<>>

\* recvfrom returns the datagram at the head of the part's channel.
ClientRecv(p) ==
    /\ Receiving(p)
    /\ Receive(p, Head(s2c[p]))
    /\ s2c' = [s2c EXCEPT ![p] = Tail(@)]
    /\ UNCHANGED <<size, exists, dfpc, outFile, processed_files, dfResult,
                   ppc, partResult, faultLog, serverVars, tileVars>>

\* The transport delivers the head datagram and keeps a copy in flight.
ClientRecvDuplicate(p) ==
    /\ Receiving(p)
    /\ FaultsLeft
    /\ Receive(p, Head(s2c[p]))
    /\ faultLog' = faultLog (+) SetToBag({<<"dup", Head(s2c[p]).type>>})
    /\ UNCHANGED <<size, exists, dfpc, outFile, processed_files, dfResult,
                   ppc, partResult, s2c, serverVars, tileVars>>

\* The transport delivers the head DATA datagram with a damaged payload.
ClientRecvCorrupted(p) ==
    /\ Receiving(p)
    /\ FaultsLeft
    /\ Head(s2c[p]).type = "DATA"
    /\ \E i \in 1 .. Len(Head(s2c[p]).data) :
          Receive(p, Corrupted(Head(s2c[p]), i))
    /\ s2c' = [s2c EXCEPT ![p] = Tail(@)]
    /\ faultLog' = faultLog (+) SetToBag({<<"corrupt", "DATA">>})
    /\ UNCHANGED <<size, exists, dfpc, outFile, processed_files, dfResult,
                   ppc, partResult, serverVars, tileVars>>

\* The transport drops the datagram at the head of the part's channel.
LoseToClient(p) ==
    /\ Receiving(p)
    /\ FaultsLeft
    /\ s2c' = [s2c EXCEPT ![p] = Tail(@)]
    /\ faultLog' = faultLog (+) SetToBag({<<"loss", Head(s2c[p]).type>>})
    /\ UNCHANGED <<size, exists, clientVars, c2s, serverVars, tileVars>>

\* The transport drops a datagram of part p on its way to the server.
LoseToServer(p) ==
    /\ c2s[p] # <<>>
    /\ FaultsLeft
    /\ c2s' = [c2s EXCEPT ![p] = Tail(@)]
    /\ faultLog' = faultLog (+) SetToBag({<<"loss", Head(c2s[p]).type>>})
    /\ UNCHANGED <<size, exists, clientVars, s2c, serverVars, tileVars>>

\* ---- server --------------------------------------------------------------
LockFree == ~lock.held

\* A key made of the source IP alone, the same for every part.
ClientKeyOfAddress(p) == 0

\* get_client_key: every packet of part p declares client_port 20000 + p.
ClientKey(p) == p

Put(f, k, v) == [x \in (DOMAIN f) \cup {k} |-> IF x = k THEN v ELSE f[x]]

Remove(f, k) == [x \in (DOMAIN f) \ {k} |-> f[x]]

\* The accesses of each code path to the shared maps, in program order, and
\* whether the access is inside a "with lock:" block.
Access(map, kind, locked) == [map |-> map, kind |-> kind, locked |-> locked]

\* receiver_thread: lines 82-90 under the lock, the put of line 93 after it.
ReceiverAccesses ==
    <<Access("client_queues", "read", TRUE), Access("client_queues", "write", TRUE),
      Access("client_queues", "read", FALSE)>>

\* client_processor: client_queues[client_key].get(), line 103.
ProcessorAccesses == <<Access("client_queues", "read", FALSE)>>

\* handle_client_request, DOWNLOAD: lines 138-139 and 147-153.
DownloadAccesses ==
    <<Access("transfer_chunks", "write", TRUE), Access("active_transfers", "write", TRUE)>>

\* handle_ack_nack: the loop over active_transfers, lines 167-178.
AckNackAccesses == <<Access("active_transfers", "read", TRUE)>>

\* send_file_chunk: lines 226-230 (or 304-307 for a missing file).
OpenAccesses ==
    <<Access("active_transfers", "read", TRUE), Access("active_transfers", "write", TRUE)>>

DataAccessesUnlocked ==
    <<Access("active_transfers", "write", FALSE), Access("transfer_chunks", "write", FALSE)>>

\* send_file_chunk: lines 251-262.
DataAccesses ==
    <<Access("active_transfers", "read", TRUE), Access("active_transfers", "write", TRUE),
      Access("transfer_chunks", "read", TRUE), Access("transfer_chunks", "write", TRUE)>>

\* send_file_chunk: lines 288-290.
EndAccesses ==
    <<Access("active_transfers", "read", TRUE), Access("active_transfers", "write", TRUE)>>

\* cleanup_transfer: lines 330-334.
CleanupAccesses ==
    <<Access("active_transfers", "read", TRUE), Access("active_transfers", "write", TRUE),
      Access("transfer_chunks", "read", TRUE), Access("transfer_chunks", "write", TRUE)>>

\* The accesses of a code path that thread makes without holding the lock.
Unlocked(thread, accesses) ==
    {<<thread, accesses[i].map, accesses[i].kind>> :
        i \in {j \in 1 .. Len(accesses) : ~accesses[j].locked}}

\* receiver_thread: one datagram from the socket into the queue of its key,
\* creating the queue (and its processor thread) on first sight; a datagram
\* that does not parse is skipped.
ServerRecv(p) ==
    /\ c2s[p] # <<>>
    /\ LET pkt == Head(c2s[p])
           key == ClientKey(p)
       IN IF Parses(pkt)
          THEN /\ LockFree
               /\ client_queues' =
                     IF key \in DOMAIN client_queues
                     THEN [client_queues EXCEPT ![key] = Append(@, pkt)]
                     ELSE Put(client_queues, key, <<pkt>>)
               /\ ackRecv' = IF pkt.type = "ACK"
                             THEN ackRecv \cup {<<key, pkt.sequence>>}
                             ELSE ackRecv
               /\ unlocked' = unlocked \cup
                                 Unlocked("receiver_thread", ReceiverAccesses)
          ELSE UNCHANGED <<client_queues, ackRecv, unlocked>>
    /\ c2s' = [c2s EXCEPT ![p] = Tail(@)]
    /\ UNCHANGED <<size, exists, clientVars, s2c, faultLog, active_transfers,
                   transfer_chunks, worker, lock, sent, tileVars>>

\* uuid4: the n-th transfer id handed out for a client key.
NewTransferId(key) ==
    <<key, 1 + Cardinality({t \in DOMAIN worker : t[1] = key})>>

\* handle_ack_nack: the first entry of active_transfers (in insertion order)
\* with this client_key and file_name.
Matching(key, file_name) ==
    {t \in DOMAIN active_transfers :
        /\ active_transfers[t].client_key = key
        /\ active_transfers[t].file_name = file_name}

\* handle_client_request, DOWNLOAD: register the transfer and start its worker.
HandleDownload(key, pkt) ==
    LET tid == NewTransferId(key)
    IN /\ transfer_chunks' = Put(transfer_chunks, tid, <<>>)
       /\ active_transfers' = Put(active_transfers, tid,
             [client_key |-> key, file_name |-> pkt.file_name,
              status |-> "starting", total_chunks |-> -1, current_chunk |-> -1])
       /\ worker' = Put(worker, tid, [pc |-> "open", seq |-> 0,
                                      offset |-> pkt.offset, total |-> -1])
       /\ sent' = Put(sent, tid, <<>>)
       /\ unlocked' = unlocked \cup Unlocked("client_processor",
                                              ProcessorAccesses \o DownloadAccesses)
       /\ UNCHANGED lock

\* The first of them in the order of active_transfers.items().
FirstMatching(key, file_name) ==
    CHOOSE t \in Matching(key, file_name) :
        \A u \in Matching(key, file_name) : t[2] <= u[2]

\* handle_ack_nack: under the lock, a NACK for a registered transfer calls
\* resend_chunk(transfer_id, sequence), which takes the same threading.Lock
\* again and never gets it.
HandleAckNack(key, pkt) ==
    /\ IF pkt.type = "NACK" /\ Matching(key, pkt.file_name) # {}
       THEN lock' = [held |-> TRUE, by |-> key,
                     resend |-> <<FirstMatching(key, pkt.file_name), pkt.sequence>>]
       ELSE UNCHANGED lock
    /\ unlocked' = unlocked \cup Unlocked("client_processor",
                                           ProcessorAccesses \o AckNackAccesses)
    /\ UNCHANGED <<transfer_chunks, active_transfers, worker, sent>>

\* client_processor: one packet off the queue of its key.
Processor(key) ==
    /\ key \in DOMAIN client_queues
    /\ client_queues[key] # <<>>
    /\ LockFree
    /\ LET pkt == Head(client_queues[key])
       IN IF pkt.type \in PROTO_CONST
          THEN HandleAckNack(key, pkt)
          ELSE HandleDownload(key, pkt)
    /\ client_queues' = [client_queues EXCEPT ![key] = Tail(@)]
    /\ UNCHANGED <<size, exists, clientVars, netVars, ackRecv, tileVars>>

\* A status update that puts the entry back to 'starting'.
SetStatusStarting(at, tid, status) ==
    IF tid \in DOMAIN at THEN [at EXCEPT ![tid].status = "starting"] ELSE at

SetStatus(at, tid, status) ==
    IF tid \in DOMAIN at THEN [at EXCEPT ![tid].status = status] ELSE at

FileFoundAlways == TRUE

\* open(file_name, "rb") succeeds.
FileFound == exists

\* A thread can take an untimed step: a datagram is deliverable, a queue
\* is not empty, a worker is between two packets, a part thread is starting.
Busy ==
    \/ \E p \in Parts : Receiving(p)
    \/ \E p \in Parts : c2s[p] # <<>> /\ (LockFree \/ ~Parses(Head(c2s[p])))
    \/ \E key \in DOMAIN client_queues : client_queues[key] # <<>> /\ LockFree
    \/ \E tid \in DOMAIN worker :
          \/ worker[tid].pc = "open" /\ (~FileFound \/ LockFree)
          \/ worker[tid].pc = "data"
                /\ (LockFree \/ ReadChunk(worker[tid].offset, worker[tid].seq) = <<>>)
          \/ worker[tid].pc = "end"
    \/ dfpc = "running" /\ \E p \in Parts : ppc[p] = "idle"

\* The clocks of a quiet system: download_part polls completion_event every
\* second, recvfrom gives up after 5 s and the thread after MAX_TIMEOUTS of
\* them (25 s), cleanup_transfer sleeps 30 s, download_part waits 120 s.
PollDue == \E p \in Parts : ppc[p] = "waiting" /\ completion_event[p]

TimeoutDue == \E p \in Parts : ppc[p] = "waiting" /\ rthread[p] = "running"

CleanupDue == LockFree /\ \E tid \in DOMAIN worker : worker[tid].pc = "finally"

\* send_file_chunk up to the START packet; FileNotFoundError sends ERROR and
\* sets status = 'error' under the lock (blocked for ever behind a lock that
\* is never released).
WorkerOpen(tid) ==
    /\ tid \in DOMAIN worker
    /\ worker[tid].pc = "open"
    /\ IF FileFound
       THEN LET total == TotalChunks(worker[tid].offset)
            IN /\ LockFree
               /\ active_transfers' =
                     IF tid \in DOMAIN active_transfers
                     THEN [active_transfers EXCEPT
                             ![tid].status = "in_progress",
                             ![tid].total_chunks = total,
                             ![tid].current_chunk = 0]
                     ELSE active_transfers
               /\ s2c' = SendToClient(s2c, tid[1], <<StartPacket(total)>>)
               /\ sent' = [sent EXCEPT ![tid] = Append(@, <<"START", 0>>)]
               /\ worker' = [worker EXCEPT
                     ![tid].pc = IF total > 0 THEN "data" ELSE "end",
                     ![tid].total = total]
       ELSE /\ s2c' = SendToClient(s2c, tid[1], <<ErrorPacket>>)
            /\ sent' = [sent EXCEPT ![tid] = Append(@, <<"ERROR", 0>>)]
            /\ IF LockFree
               THEN /\ active_transfers' = SetStatus(active_transfers, tid, "error")
                    /\ worker' = [worker EXCEPT ![tid].pc = "finally"]
               ELSE /\ worker' = [worker EXCEPT ![tid].pc = "blocked"]
                    /\ UNCHANGED active_transfers
    /\ unlocked' = unlocked \cup Unlocked("send_file_chunk", OpenAccesses)
    /\ UNCHANGED <<size, exists, clientVars, c2s, faultLog, client_queues,
                   transfer_chunks, lock, ackRecv, tileVars>>

\* A cache record that keeps the checksum and drops the bytes.
ChunkRecordNoData(chunk, checksum) == [data |-> <<>>, checksum |-> checksum]

\* transfer_chunks[transfer_id][seq] = {'data': chunk, 'checksum': checksum, ...}
ChunkRecord(chunk, checksum) == [data |-> chunk, checksum |-> checksum]

\* One turn of "for seq in range(total_chunks)": read, cache, send DATA.
WorkerSendData(tid) ==
    /\ tid \in DOMAIN worker
    /\ worker[tid].pc = "data"
    /\ LET seq == worker[tid].seq
           chunk == ReadChunk(worker[tid].offset, seq)
           checksum == Md5(chunk)
       IN IF chunk = <<>>
          THEN /\ worker' = [worker EXCEPT ![tid].pc = "end"]
               /\ UNCHANGED <<active_transfers, transfer_chunks, s2c, sent>>
          ELSE /\ LockFree
               /\ active_transfers' =
                     IF tid \in DOMAIN active_transfers
                     THEN [active_transfers EXCEPT ![tid].current_chunk = seq]
                     ELSE active_transfers
               /\ transfer_chunks' =
                     IF tid \in DOMAIN transfer_chunks
                     THEN [transfer_chunks EXCEPT ![tid] =
                             Put(@, seq, ChunkRecord(chunk, checksum))]
                     ELSE transfer_chunks
               /\ s2c' = SendToClient(s2c, tid[1], <<DataPacket(seq, chunk, checksum)>>)
               /\ sent' = [sent EXCEPT ![tid] = Append(@, <<"DATA", seq>>)]
               /\ worker' = [worker EXCEPT
                     ![tid].seq = seq + 1,
                     ![tid].pc = IF seq + 1 < worker[tid].total THEN "data" ELSE "end"]
    /\ unlocked' = unlocked \cup Unlocked("send_file_chunk", DataAccesses)
    /\ UNCHANGED <<size, exists, clientVars, c2s, faultLog, client_queues,
                   lock, ackRecv, tileVars>>

\* The END packet, sequence = total_chunks, then status = 'completed'
\* under the lock; behind a lock that is never released the worker stays
\* blocked after END.
WorkerSendEnd(tid) ==
    /\ tid \in DOMAIN worker
    /\ worker[tid].pc = "end"
    /\ s2c' = SendToClient(s2c, tid[1], <<EndPacket(worker[tid].total)>>)
    /\ sent' = [sent EXCEPT ![tid] = Append(@, <<"END", worker[tid].total>>)]
    /\ IF LockFree
       THEN /\ active_transfers' = SetStatus(active_transfers, tid, "completed")
            /\ worker' = [worker EXCEPT ![tid].pc = "finally"]
       ELSE /\ worker' = [worker EXCEPT ![tid].pc = "blocked"]
            /\ UNCHANGED active_transfers
    /\ unlocked' = unlocked \cup Unlocked("send_file_chunk", EndAccesses)
    /\ UNCHANGED <<size, exists, clientVars, c2s, faultLog, client_queues,
                   transfer_chunks, lock, ackRecv, tileVars>>

\* cleanup_transfer, 30 s after the worker has finished.
CleanupTransfer(tid) ==
    /\ tid \in DOMAIN worker
    /\ worker[tid].pc = "finally"
    /\ LockFree
    /\ ~Busy /\ ~PollDue /\ ~TimeoutDue
    /\ active_transfers' = Remove(active_transfers, tid)
    /\ transfer_chunks' = Remove(transfer_chunks, tid)
    /\ worker' = [worker EXCEPT ![tid].pc = "gone"]
    /\ unlocked' = unlocked \cup Unlocked("cleanup_transfer", CleanupAccesses)
    /\ UNCHANGED <<size, exists, clientVars, netVars, client_queues,
                   lock, sent, ackRecv, tileVars>>

\* ---- client: timeouts, download_part, download_file ----------------------
\* socket.timeout in the receive threads of the parts ps: count it, give up
\* at MAX_TIMEOUTS.
Timeouts(ps) ==
    /\ timeout_count' = [p \in Parts |->
          IF p \in ps THEN timeout_count[p] + 1 ELSE timeout_count[p]]
    /\ rthread' = [p \in Parts |->
          IF p \in ps /\ timeout_count[p] + 1 >= MAX_TIMEOUTS
          THEN "exited" ELSE rthread[p]]
    /\ UNCHANGED <<size, exists, dfpc, outFile, processed_files, dfResult, ppc,
                   received_data, total_chunks_ref, completion_event, progress,
                   partResult, recvLog, netVars, serverVars, tileVars>>

\* The sockets of a quiet system time out together.
ClientTimeout ==
    /\ TimeoutDue
    /\ ~Busy /\ ~PollDue
    /\ Timeouts({p \in Parts : ppc[p] = "waiting" /\ rthread[p] = "running"})

\* download_part up to the DOWNLOAD request.
PartStart(p) ==
    /\ dfpc = "running"
    /\ ppc[p] = "idle"
    /\ ppc' = [ppc EXCEPT ![p] = "waiting"]
    /\ progress' = [progress EXCEPT ![p] = <<0, PartLength(p, size, num_parts)>>]
    /\ rthread' = [rthread EXCEPT ![p] = "running"]
    /\ c2s' = [c2s EXCEPT
          ![p] = Append(@, DownloadPacket(PartOffset(p, size, num_parts)))]
    /\ UNCHANGED <<size, exists, dfpc, outFile, processed_files, dfResult,
                   received_data, total_chunks_ref, completion_event,
                   timeout_count, partResult, recvLog, s2c, faultLog,
                   serverVars, tileVars>>

\* b''.join(received_data[i] for i in sorted(received_data.keys()) if i < total)
JoinChunks(rd, total) ==
    LET RECURSIVE Go(_)
        Go(i) == IF i >= total THEN <<>>
                 ELSE (IF i \in DOMAIN rd THEN rd[i] ELSE <<>>) \o Go(i + 1)
    IN Go(0)

\* A write at the end of the file, whatever the offset.
WriteAppend(file, offset, data) == file \o data

\* f.seek(offset); f.write(data)
WriteAt(file, offset, data) ==
    LET newLen == IF offset + Len(data) > Len(file) /\ Len(data) > 0
                  THEN offset + Len(data) ELSE Len(file)
    IN [i \in 1 .. newLen |->
          IF i > offset /\ i <= offset + Len(data) THEN data[i - offset]
          ELSE IF i <= Len(file) THEN file[i] ELSE 0]

Take(s, n) == SubSeq(s, 1, Min(n, Len(s)))

\* download_part after the wait: close the socket, write the part if every
\* chunk is there, report the outcome.
WritePart(p) ==
    /\ ppc' = [ppc EXCEPT ![p] = "done"]
    /\ IF HaveAllChunks(total_chunks_ref[p], received_data[p])
       THEN /\ outFile' = WriteAt(outFile, PartOffset(p, size, num_parts),
                              Take(JoinChunks(received_data[p], total_chunks_ref[p]),
                                   PartLength(p, size, num_parts)))
            /\ partResult' = [partResult EXCEPT ![p] = TRUE]
       ELSE /\ partResult' = [partResult EXCEPT ![p] = FALSE]
            /\ UNCHANGED outFile
    /\ UNCHANGED <<size, exists, dfpc, processed_files, dfResult, rthread,
                   received_data, total_chunks_ref, completion_event,
                   timeout_count, progress, recvLog, netVars,
                   serverVars, tileVars>>

\* The wait of download_part ends: completion_event is set, or 120 s are over.
PartFinish(p) ==
    /\ ppc[p] = "waiting"
    /\ \/ completion_event[p]
       \/ rthread[p] = "exited" /\ ~TimeoutDue /\ ~CleanupDue
    /\ ~Busy
    /\ WritePart(p)

\* download_file up to the start of the part threads: f.truncate(size).
DownloadFileStart ==
    /\ dfpc = "idle"
    /\ dfpc' = "running"
    /\ outFile' = [i \in 1 .. size |-> 0]
    /\ progress' = [p \in Parts |-> <<0, PartLength(p, size, num_parts)>>]
    /\ UNCHANGED <<size, exists, processed_files, dfResult, ppc, rthread,
                   received_data, total_chunks_ref, completion_event,
                   timeout_count, partResult, recvLog, netVars,
                   serverVars, tileVars>>

\* download_file after the joins: os.path.getsize(output_file) == size.
DownloadFileFinish ==
    /\ dfpc = "running"
    /\ \A p \in Parts : ppc[p] = "done"
    /\ dfpc' = "done"
    /\ IF Len(outFile) = size
       THEN /\ processed_files' = processed_files \cup {FileName}
            /\ dfResult' = TRUE
       ELSE /\ dfResult' = FALSE
            /\ UNCHANGED processed_files
    /\ UNCHANGED <<size, exists, outFile, ppc, rthread, received_data,
                   total_chunks_ref, completion_event, timeout_count, progress,
                   partResult, recvLog, netVars, serverVars, tileVars>>

\* ---- the transfer system -------------------------------------------------
TileIdle ==
    /\ t_size = 0
    /\ t_cfg = 1
    /\ t_i = 0
    /\ t_offsets = <<>>
    /\ t_lengths = <<>>

CkIdle ==
    /\ requests = 0
    /\ ck_p = <<>>
    /\ ck_q = <<>>
    /\ ck_pc = "idle"
    /\ ck_pkt = <<>>
    /\ ck_res = <<>>

\* The files of the catalogue (file_list).
WatchFiles == {FileName, "g"}

WatchIdle ==
    /\ w_mtime = 0
    /\ w_listed = {}
    /\ last_check_time = 0
    /\ w_cycle = 0
    /\ w_attempts = [f \in WatchFiles |-> 0]

\* self.chunk_size, self.max_connections and the 1024-byte packet of
\* send_file_chunk, scaled down.
U_CHUNK_SIZE == 2
U_MAX_CONNECTIONS == 2
PACKET_SIZE == 1

Max(a, b) == IF a > b THEN a ELSE b

\* download_file: chunk_size = max(file_size // max_connections, chunk_size)
UChunkSize(file_size) == Max(file_size \div U_MAX_CONNECTIONS, U_CHUNK_SIZE)

\* download_file: total_chunks = (file_size + chunk_size - 1) // chunk_size
UTotalChunks(file_size) ==
    (file_size + UChunkSize(file_size) - 1) \div UChunkSize(file_size)

\* Every chunk_id a file of the model can have.
UChunkIds == 0 .. UTotalChunks(MaxFileSize) - 1

IdleWorker == [pc |-> "idle", offset |-> 0, bytes_to_send |-> 0,
               bytes_sent |-> 0, packet_size |-> 0]

IdleThread == [pc |-> "idle", part |-> <<>>, received |-> 0,
               complete |-> FALSE, failed |-> FALSE]

BasicIdle ==
    /\ u_file_size = 0
    /\ u_exists = TRUE
    /\ u_srv_sock = <<>>
    /\ u_cli_sock = <<>>
    /\ u_worker = [c \in UChunkIds |-> IdleWorker]
    /\ u_thread = [c \in UChunkIds |-> IdleThread]
    /\ u_dfpc = "idle"
    /\ u_last = [c \in UChunkIds |-> -1]
    /\ u_resends = 0

\* The parts of the module that a specification does not run.
AuxIdle == WatchIdle /\ BasicIdle

TransferIdle ==
    /\ dfpc = "idle"
    /\ outFile = <<>>
    /\ processed_files = {}
    /\ dfResult = FALSE
    /\ ppc = [p \in Parts |-> "idle"]
    /\ rthread = [p \in Parts |-> "unstarted"]
    /\ received_data = [p \in Parts |-> <<>>]
    /\ total_chunks_ref = [p \in Parts |-> 0]
    /\ completion_event = [p \in Parts |-> FALSE]
    /\ timeout_count = [p \in Parts |-> 0]
    /\ progress = [p \in Parts |-> <<0, 0>>]
    /\ partResult = [p \in Parts |-> FALSE]
    /\ recvLog = [p \in Parts |-> <<>>]
    /\ s2c = [p \in Parts |-> <<>>]
    /\ c2s = [p \in Parts |-> <<>>]
    /\ faultLog = EmptyBag
    /\ client_queues = <<>>
    /\ active_transfers = <<>>
    /\ transfer_chunks = <<>>
    /\ worker = <<>>
    /\ lock = [held |-> FALSE, by |-> 0, resend |-> <<>>]
    /\ sent = <<>>
    /\ ackRecv = {}
    /\ unlocked = {}

Init ==
    /\ size \in 0 .. MaxSize
    /\ exists \in BOOLEAN
    /\ TransferIdle
    /\ TileIdle
    /\ CkIdle
    /\ AuxIdle

\* uuid4 gives every DOWNLOAD processed for a key a fresh id; a key sends one
\* DOWNLOAD, which only a transport fault can multiply.
TransferIds == {<<ClientKey(p), n>> : p \in Parts, n \in 1 .. (1 + MaxFaults)}

Next ==
    \/ DownloadFileStart
    \/ DownloadFileFinish
    \/ \E p \in Parts : PartStart(p)
    \/ \E p \in Parts : ClientRecv(p)
    \/ \E p \in Parts : ClientRecvDuplicate(p)
    \/ \E p \in Parts : ClientRecvCorrupted(p)
    \/ \E p \in Parts : LoseToClient(p)
    \/ \E p \in Parts : LoseToServer(p)
    \/ ClientTimeout
    \/ \E p \in Parts : PartFinish(p)
    \/ \E p \in Parts : ServerRecv(p)
    \/ \E p \in Parts : Processor(ClientKey(p))
    \/ \E tid \in TransferIds : WorkerOpen(tid)
    \/ \E tid \in TransferIds : WorkerSendData(tid)
    \/ \E tid \in TransferIds : WorkerSendEnd(tid)
    \/ \E tid \in TransferIds : CleanupTransfer(tid)

Spec == Init /\ [][Next]_vars

\* The steps of the program's threads (everything but the transport's
\* faults): no thread that can run is held back for ever.
ProgramStep ==
    \/ DownloadFileStart
    \/ DownloadFileFinish
    \/ \E p \in Parts : PartStart(p) \/ ClientRecv(p) \/ PartFinish(p)
    \/ ClientTimeout
    \/ \E p \in Parts : ServerRecv(p) \/ Processor(ClientKey(p))
    \/ \E tid \in TransferIds :
          WorkerOpen(tid) \/ WorkerSendData(tid) \/ WorkerSendEnd(tid)
             \/ CleanupTransfer(tid)

SpecFair == Spec /\ WF_vars(ProgramStep)

\* ---- the range loop of download_file, for any size and configuration ------
TileInit ==
    /\ t_size \in 0 .. MaxTileSize
    /\ t_cfg \in 1 .. MaxTileCfg
    /\ t_i = 0
    /\ t_offsets = <<>>
    /\ t_lengths = <<>>
    /\ size = 0
    /\ exists = TRUE
    /\ TransferIdle
    /\ CkIdle
    /\ AuxIdle

\* One turn of "for i in range(num_parts)".
TileStep ==
    /\ t_i < NumPartsOf(t_cfg)
    /\ t_offsets' = Append(t_offsets, PartOffset(t_i, t_size, NumPartsOf(t_cfg)))
    /\ t_lengths' = Append(t_lengths, PartLength(t_i, t_size, NumPartsOf(t_cfg)))
    /\ t_i' = t_i + 1
    /\ UNCHANGED <<t_size, t_cfg, size, exists, clientVars, netVars, serverVars,
                   ckVars, requests, auxVars>>

TileNext == TileStep

SpecTiling == TileInit /\ [][TileNext]_vars

\* ---- the server facing any client -----------------------------------------
\* The sequence numbers of the DATA packets the worker of tid has sent.
DataSent(tid) ==
    {sent[tid][i][2] : i \in {j \in 1 .. Len(sent[tid]) : sent[tid][j][1] = "DATA"}}

\* A NACK, with a note of the transfer whose DATA packet it answers (the
\* datagram itself names only the file and the sequence).
NackFor(seq, tid) == NackPacket(seq) @@ [answers |-> tid]

\* What a client with the key of part p may send: its DOWNLOAD (again after
\* a failed attempt), an ACK or NACK for a DATA packet it was sent, or bytes
\* that are no packet.
ClientPackets(p) ==
    LET mine == {tid \in DOMAIN worker : tid[1] = ClientKey(p)}
    IN {DownloadPacket(PartOffset(p, size, num_parts))}
          \cup {AckPacket(seq) : seq \in UNION {DataSent(tid) : tid \in mine}}
          \cup UNION {{NackFor(seq, tid) : seq \in DataSent(tid)} : tid \in mine}
          \cup RawDatagrams

ClientSends(p) ==
    /\ requests < MaxRequests
    /\ requests' = requests + 1
    /\ \E pkt \in ClientPackets(p) : c2s' = [c2s EXCEPT ![p] = Append(@, pkt)]
    /\ UNCHANGED <<size, exists, clientVars, s2c, faultLog, serverVars,
                   t_size, t_cfg, t_i, t_offsets, t_lengths, ckVars, auxVars>>

\* One id for every DOWNLOAD that client can send.
SrvTransferIds == {<<ClientKey(p), n>> : p \in Parts, n \in 1 .. MaxRequests}

SrvNext ==
    \/ \E p \in Parts : ClientSends(p)
    \/ \E p \in Parts : ServerRecv(p)
    \/ \E p \in Parts : Processor(ClientKey(p))
    \/ \E tid \in SrvTransferIds : WorkerOpen(tid)
    \/ \E tid \in SrvTransferIds : WorkerSendData(tid)
    \/ \E tid \in SrvTransferIds : WorkerSendEnd(tid)
    \/ \E tid \in SrvTransferIds : CleanupTransfer(tid)

SpecServer == Init /\ [][SrvNext]_vars

\* ---- one receive thread and its download_part, any order of arrival -------
\* What the transport may hand to the socket of part p: the packets the
\* server sends for its DOWNLOAD, intact or with a damaged payload, in any
\* order and any number of times.
ServerPackets(p) ==
    LET offset == PartOffset(p, size, num_parts)
        total == TotalChunks(offset)
        data == {DataPacket(seq, ReadChunk(offset, seq), Md5(ReadChunk(offset, seq))) :
                    seq \in 0 .. (total - 1)}
    IN IF exists
       THEN {StartPacket(total), EndPacket(total)} \cup data
               \cup UNION {{Corrupted(pkt, i) : i \in 1 .. Len(pkt.data)} : pkt \in data}
       ELSE {ErrorPacket}

\* Another catalogued file, downloaded before this one through the same
\* ports; none of its bytes occurs in the file requested now.
OtherFileName == "g"

OtherChunk == [i \in 1 .. CHUNK_SIZE |-> MaxSize + 1]

\* DATA packets the server sent for the part of that earlier download to
\* port 20000 + p, still in flight when the port is bound again.
StalePackets(p) ==
    {[DataPacket(seq, OtherChunk, Md5(OtherChunk)) EXCEPT !.file_name = OtherFileName] :
        seq \in 0 .. TotalChunks(PartOffset(p, size, num_parts))}

\* download_file has pre-sized the output file, the thread of part p has
\* sent its DOWNLOAD and waits; the other part threads have not run yet.
RcvInit ==
    /\ size \in 0 .. MaxSize
    /\ exists \in BOOLEAN
    /\ dfpc = "running"
    /\ outFile = [i \in 1 .. size |-> 0]
    /\ processed_files = {}
    /\ dfResult = FALSE
    /\ \E p \in Parts :
          /\ ppc = [q \in Parts |-> IF q = p THEN "waiting" ELSE "idle"]
          /\ rthread = [q \in Parts |-> IF q = p THEN "running" ELSE "unstarted"]
    /\ received_data = [p \in Parts |-> <<>>]
    /\ total_chunks_ref = [p \in Parts |-> 0]
    /\ completion_event = [p \in Parts |-> FALSE]
    /\ timeout_count = [p \in Parts |-> 0]
    /\ progress = [p \in Parts |-> <<0, PartLength(p, size, num_parts)>>]
    /\ partResult = [p \in Parts |-> FALSE]
    /\ recvLog = [p \in Parts |-> <<>>]
    /\ s2c = [p \in Parts |-> <<>>]
    /\ c2s = [p \in Parts |-> <<>>]
    /\ faultLog = EmptyBag
    /\ client_queues = <<>>
    /\ active_transfers = <<>>
    /\ transfer_chunks = <<>>
    /\ worker = <<>>
    /\ lock = [held |-> FALSE, by |-> 0, resend |-> <<>>]
    /\ sent = <<>>
    /\ ackRecv = {}
    /\ unlocked = {}
    /\ TileIdle
    /\ CkIdle
    /\ AuxIdle

\* recvfrom returns a datagram.
RcvDeliver(p) ==
    /\ ppc[p] = "waiting"
    /\ rthread[p] = "running"
    /\ Len(recvLog[p]) < MaxDeliver
    /\ \E pkt \in ServerPackets(p) : Receive(p, pkt)
    /\ UNCHANGED <<size, exists, dfpc, outFile, processed_files, dfResult,
                   ppc, partResult, s2c, faultLog, serverVars, tileVars>>

\* recvfrom returns a datagram of the earlier download.
RcvDeliverStale(p) ==
    /\ ppc[p] = "waiting"
    /\ rthread[p] = "running"
    /\ Len(recvLog[p]) < MaxDeliver
    /\ \E pkt \in StalePackets(p) : Receive(p, pkt)
    /\ UNCHANGED <<size, exists, dfpc, outFile, processed_files, dfResult,
                   ppc, partResult, s2c, faultLog, serverVars, tileVars>>

\* recvfrom returns a datagram that is no packet.
RcvDeliverRaw(p) ==
    /\ ppc[p] = "waiting"
    /\ rthread[p] = "running"
    /\ Len(recvLog[p]) < MaxDeliver
    /\ \E pkt \in RawDatagrams : Receive(p, pkt)
    /\ UNCHANGED <<size, exists, dfpc, outFile, processed_files, dfResult,
                   ppc, partResult, s2c, faultLog, serverVars, tileVars>>

\* recvfrom raises socket.timeout.
RcvTimeout(p) ==
    /\ ppc[p] = "waiting"
    /\ rthread[p] = "running"
    /\ Timeouts({p})

\* The wait of download_part ends.
RcvFinish(p) ==
    /\ ppc[p] = "waiting"
    /\ completion_event[p] \/ rthread[p] = "exited"
    /\ WritePart(p)

RcvNext ==
    \/ \E p \in Parts : RcvDeliver(p)
    \/ \E p \in Parts : RcvDeliverStale(p)
    \/ \E p \in Parts : RcvDeliverRaw(p)
    \/ \E p \in Parts : RcvTimeout(p)
    \/ \E p \in Parts : RcvFinish(p)

SpecReceiver == RcvInit /\ [][RcvNext]_vars

\* ---- one payload through checksum, packet and verification ---------------
Payloads == UNION {[1 .. n -> 0 .. MaxByte] : n \in 0 .. MaxPayloadLen}

CkInit ==
    /\ ck_p \in Payloads
    /\ ck_q \in Payloads
    /\ ck_pc = "read"
    /\ ck_pkt = <<>>
    /\ ck_res = <<>>
    /\ requests = 0
    /\ size = 0
    /\ exists = TRUE
    /\ TransferIdle
    /\ TileIdle
    /\ AuxIdle

\* send_file_chunk: checksum = hashlib.md5(chunk).hexdigest(), then
\* create_packet(DATA_CHUNK, ..., data=chunk, checksum=checksum).
CkSend ==
    /\ ck_pc = "read"
    /\ ck_pkt' = DataPacket(0, b64encode(ck_p), Md5(ck_p))
    /\ ck_pc' = "sent"
    /\ UNCHANGED <<ck_p, ck_q, ck_res, t_size, t_cfg, t_i, t_offsets, t_lengths,
                   size, exists, clientVars, netVars, serverVars, requests, auxVars>>

\* receive_thread: chunk_data = base64.b64decode(packet['data']), then
\* verify_checksum(chunk_data, checksum); ck_q is checked against the same
\* checksum.
CkVerify ==
    /\ ck_pc = "sent"
    /\ ck_res' = <<verify_checksum(b64decode(ck_pkt.data), ck_pkt.checksum),
                   verify_checksum(ck_q, ck_pkt.checksum)>>
    /\ ck_pc' = "verified"
    /\ UNCHANGED <<ck_p, ck_q, ck_pkt, t_size, t_cfg, t_i, t_offsets, t_lengths,
                   size, exists, clientVars, netVars, serverVars, requests, auxVars>>

CkNext == CkSend \/ CkVerify

SpecChecksum == CkInit /\ [][CkNext]_vars

\* ---- watch_input_file: the scan loop of the client ------------------------
\* input.txt exists (modification time above 0) or not, and lists some files
\* of the catalogue; nothing has been scanned or downloaded yet.
WatchInit ==
    /\ w_mtime \in 0 .. 1
    /\ w_listed \in SUBSET WatchFiles
    /\ (w_mtime = 0 => w_listed = {})
    /\ last_check_time = 0
    /\ w_cycle = 0
    /\ w_attempts = [f \in WatchFiles |-> 0]
    /\ size = 0
    /\ exists = TRUE
    /\ TransferIdle
    /\ TileIdle
    /\ CkIdle
    /\ BasicIdle

\* One cycle of the while loop: when input.txt is newer than
\* last_check_time, every listed file that is not in processed_files is
\* downloaded, one after the other; download_file adds the files it reports
\* as done (ok) to processed_files.  Then time.sleep(5).
WatchScan ==
    /\ w_cycle < MaxCycles
    /\ w_cycle' = w_cycle + 1
    /\ IF w_mtime > 0 /\ w_mtime > last_check_time
       THEN /\ last_check_time' = w_mtime
            /\ \E ok \in SUBSET (w_listed \ processed_files) :
                  processed_files' = processed_files \cup ok
            /\ w_attempts' = [f \in WatchFiles |->
                  IF f \in w_listed \ processed_files
                  THEN w_attempts[f] + 1 ELSE w_attempts[f]]
       ELSE UNCHANGED <<last_check_time, processed_files, w_attempts>>
    /\ UNCHANGED <<w_mtime, w_listed, size, exists, dfpc, outFile, dfResult, ppc,
                   rthread, received_data, total_chunks_ref, completion_event,
                   timeout_count, progress, partResult, recvLog, netVars,
                   serverVars, t_size, t_cfg, t_i, t_offsets, t_lengths, ckVars,
                   requests, basicVars>>

\* The user saves input.txt with some list of files.
TouchInput ==
    /\ w_mtime < 1 + MaxTouches
    /\ w_mtime' = w_mtime + 1
    /\ w_listed' \in SUBSET WatchFiles
    /\ UNCHANGED <<last_check_time, w_cycle, w_attempts, size, exists, clientVars,
                   netVars, serverVars, t_size, t_cfg, t_i, t_offsets, t_lengths,
                   ckVars, requests, basicVars>>

WatchNext == WatchScan \/ TouchInput

SpecWatch == WatchInit /\ [][WatchNext]_vars

\* ---- UDPServer and UDPClient (src/server/server.py, src/client/client.py) --
\* One server, one client, one file.  Each side has ONE socket: the server's
\* is read by run and by every send_file_chunk worker, the client's by every
\* download_chunk thread.  A socket is the queue of datagrams that were sent
\* to it; whichever reader calls recvfrom next gets the head.  A timeout may
\* strike a waiting worker while its ACK is still queued (a delayed ACK).
BasicRest == <<size, exists, clientVars, netVars, serverVars, t_size, t_cfg,
               t_i, t_offsets, t_lengths, ckVars, requests, watchVars>>

\* The bytes of the file on the server's disk.
UFileBytes == [i \in 1 .. u_file_size |-> i]

\* A JSON datagram of either side; the fields a type does not carry are 0
\* or empty.
UPacket(type, chunk_id, seq_num, data, offset, chunk_size) ==
    [type |-> type, filename |-> FileName, chunk_id |-> chunk_id,
     seq_num |-> seq_num, data |-> data, offset |-> offset,
     chunk_size |-> chunk_size]

\* send_file_chunk: the ACK test of the waiting worker w.
ValidAck(ack, w) ==
    ack.type = "ack" /\ ack.filename = FileName /\ ack.chunk_id = w

\* seq_num of the data packet worker w has sent last and waits on.
AwaitedSeq(w) ==
    (u_worker[w].bytes_sent - u_worker[w].packet_size) \div PACKET_SIZE

BasicInit ==
    /\ u_file_size \in 1 .. MaxFileSize
    /\ u_exists \in BOOLEAN
    /\ u_srv_sock = <<>>
    /\ u_cli_sock = <<>>
    /\ u_worker = [c \in UChunkIds |-> IdleWorker]
    /\ u_thread = [c \in UChunkIds |-> IdleThread]
    /\ u_dfpc = "idle"
    /\ u_last = [c \in UChunkIds |-> -1]
    /\ u_resends = 0
    /\ size = 0
    /\ exists = TRUE
    /\ TransferIdle
    /\ TileIdle
    /\ CkIdle
    /\ WatchIdle

\* UDPClient.download_file up to the start of the chunk threads.
UDownloadFile ==
    /\ u_dfpc = "idle"
    /\ u_dfpc' = "running"
    /\ u_thread' = [c \in UChunkIds |->
          IF c < UTotalChunks(u_file_size)
          THEN [IdleThread EXCEPT !.pc = "start"] ELSE IdleThread]
    /\ UNCHANGED <<u_file_size, u_exists, u_srv_sock, u_cli_sock, u_worker,
                   u_last, u_resends, BasicRest>>

\* download_chunk (the second definition, the one in effect) up to its first
\* recvfrom: the progress entry, the download request, the part file opened.
DownloadChunkStart(c) ==
    /\ u_thread[c].pc = "start"
    /\ u_srv_sock' = Append(u_srv_sock,
          UPacket("download", c, 0, <<>>, c * UChunkSize(u_file_size),
                  UChunkSize(u_file_size)))
    /\ u_thread' = [u_thread EXCEPT ![c].pc = "recv"]
    /\ UNCHANGED <<u_file_size, u_exists, u_cli_sock, u_worker, u_dfpc,
                   u_last, u_resends, BasicRest>>

\* download_chunk: recvfrom returns the next datagram of the shared socket to
\* thread c.  Data of whatever chunk_id and seq_num is written to c's part
\* file and acknowledged under c's own chunk_id; an end packet completes c.
DownloadChunkRecv(c) ==
    /\ u_thread[c].pc = "recv"
    /\ u_cli_sock # <<>>
    /\ LET packet == Head(u_cli_sock) IN
       /\ u_cli_sock' = Tail(u_cli_sock)
       /\ u_last' = [u_last EXCEPT ![c] =
             IF packet.type = "data" /\ packet.chunk_id = c
             THEN Max(@, packet.seq_num) ELSE @]
       /\ CASE packet.type = "data" ->
                 /\ u_thread' = [u_thread EXCEPT
                       ![c].part = @ \o packet.data,
                       ![c].received = @ + Len(packet.data)]
                 /\ u_srv_sock' = Append(u_srv_sock,
                       UPacket("ack", c, packet.seq_num, <<>>, 0, 0))
            [] packet.type = "end" ->
                 /\ u_thread' = [u_thread EXCEPT ![c].complete = TRUE,
                                                 ![c].pc = "done"]
                 /\ UNCHANGED u_srv_sock
            [] OTHER ->
                 /\ u_thread' = [u_thread EXCEPT ![c].pc = "done"]
                 /\ UNCHANGED u_srv_sock
    /\ UNCHANGED <<u_file_size, u_exists, u_worker, u_dfpc, u_resends, BasicRest>>

\* download_chunk: nothing arrived within the socket's 5 seconds;
\* socket.timeout is caught by the outer except, which marks the chunk failed.
DownloadChunkTimeout(c) ==
    /\ u_thread[c].pc = "recv"
    /\ u_cli_sock = <<>>
    /\ u_thread' = [u_thread EXCEPT ![c].failed = TRUE, ![c].pc = "done"]
    /\ UNCHANGED <<u_file_size, u_exists, u_srv_sock, u_cli_sock, u_worker,
                   u_dfpc, u_last, u_resends, BasicRest>>

\* download_file after the threads: display_progress returns only when every
\* chunk is complete; then the threads are joined and combine_chunks is
\* called, a method UDPClient does not define (AttributeError).
UDownloadFileEnd ==
    /\ u_dfpc = "running"
    /\ \A c \in UChunkIds : c < UTotalChunks(u_file_size) =>
          u_thread[c].pc = "done" /\ u_thread[c].complete
    /\ u_dfpc' = "error"
    /\ UNCHANGED <<u_file_size, u_exists, u_srv_sock, u_cli_sock, u_worker,
                   u_thread, u_last, u_resends, BasicRest>>

\* UDPServer.run: recvfrom hands the next datagram to the main loop, which
\* starts handle_request.  A download request enters send_file_chunk (worker
\* chunk_id): getsize fails on a missing file and an error packet goes out.
\* An ack finds file_data empty and changes nothing.
Run ==
    /\ u_srv_sock # <<>>
    /\ LET request == Head(u_srv_sock)
           w == request.chunk_id
           chunk_end == Min(request.offset + request.chunk_size, u_file_size)
       IN
       /\ u_srv_sock' = Tail(u_srv_sock)
       /\ IF request.type = "download"
          THEN IF u_exists
               THEN /\ u_worker' = [u_worker EXCEPT ![w] =
                         [pc |-> "send", offset |-> request.offset,
                          bytes_to_send |-> chunk_end - request.offset,
                          bytes_sent |-> 0, packet_size |-> 0]]
                    /\ UNCHANGED u_cli_sock
               ELSE /\ u_worker' = [u_worker EXCEPT ![w].pc = "done"]
                    /\ u_cli_sock' = Append(u_cli_sock,
                          UPacket("error", w, 0, <<>>, 0, 0))
          ELSE UNCHANGED <<u_worker, u_cli_sock>>
    /\ UNCHANGED <<u_file_size, u_exists, u_thread, u_dfpc, u_last,
                   u_resends, BasicRest>>

\* send_file_chunk: one turn of the while loop up to recvfrom (the next data
\* packet goes out and bytes_sent is advanced), or the end marker after it.
SendFileChunkSend(w) ==
    /\ u_worker[w].pc = "send"
    /\ LET wk == u_worker[w]
           packet_size == Min(PACKET_SIZE, wk.bytes_to_send - wk.bytes_sent)
           first == wk.offset + wk.bytes_sent
           data == SubSeq(UFileBytes, first + 1, first + packet_size)
       IN
       IF wk.bytes_sent < wk.bytes_to_send
       THEN /\ u_cli_sock' = Append(u_cli_sock,
                  UPacket("data", w, wk.bytes_sent \div PACKET_SIZE, data, 0, 0))
            /\ u_worker' = [u_worker EXCEPT
                  ![w].bytes_sent = @ + packet_size,
                  ![w].packet_size = packet_size,
                  ![w].pc = "wait"]
       ELSE /\ u_cli_sock' = Append(u_cli_sock, UPacket("end", w, 0, <<>>, 0, 0))
            /\ u_worker' = [u_worker EXCEPT ![w].pc = "done"]
    /\ UNCHANGED <<u_file_size, u_exists, u_srv_sock, u_thread, u_dfpc,
                   u_last, u_resends, BasicRest>>

\* send_file_chunk: the worker's recvfrom returns the next datagram of the
\* server socket.  An ack with the worker's filename and chunk_id lets the
\* loop go on to the next packet; anything else is treated as a timeout and
\* the packet is sent again.
SendFileChunkRecv(w) ==
    /\ u_worker[w].pc = "wait"
    /\ u_srv_sock # <<>>
    /\ LET ack == Head(u_srv_sock) IN
       /\ u_srv_sock' = Tail(u_srv_sock)
       /\ IF ValidAck(ack, w)
          THEN /\ u_worker' = [u_worker EXCEPT ![w].pc = "send"]
               /\ UNCHANGED u_resends
          ELSE /\ u_resends < MaxResends
               /\ u_resends' = u_resends + 1
               /\ u_worker' = [u_worker EXCEPT
                     ![w].bytes_sent = @ - u_worker[w].packet_size,
                     ![w].pc = "send"]
    /\ UNCHANGED <<u_file_size, u_exists, u_cli_sock, u_thread, u_dfpc, u_last,
                   BasicRest>>

\* send_file_chunk: no datagram within 2 seconds; the packet is sent again.
SendFileChunkTimeout(w) ==
    /\ u_worker[w].pc = "wait"
    /\ u_resends < MaxResends
    /\ u_resends' = u_resends + 1
    /\ u_worker' = [u_worker EXCEPT
          ![w].bytes_sent = @ - u_worker[w].packet_size,
          ![w].pc = "send"]
    /\ UNCHANGED <<u_file_size, u_exists, u_srv_sock, u_cli_sock, u_thread,
                   u_dfpc, u_last, BasicRest>>

BasicNext ==
    \/ UDownloadFile
    \/ \E c \in UChunkIds : DownloadChunkStart(c)
    \/ \E c \in UChunkIds : DownloadChunkRecv(c)
    \/ \E c \in UChunkIds : DownloadChunkTimeout(c)
    \/ UDownloadFileEnd
    \/ Run
    \/ \E w \in UChunkIds : SendFileChunkSend(w)
    \/ \E w \in UChunkIds : SendFileChunkRecv(w)
    \/ \E w \in UChunkIds : SendFileChunkTimeout(w)

SpecBasic == BasicInit /\ [][BasicNext]_vars

\* ---- C1 -------------------------------------------------------------------
\* C1 (stop-and-wait): within one transfer the DATA packet of chunk seq+1 is
\* never sent before the server has received an ACK for chunk seq.
C1_StopAndWait ==
    \A tid \in DOMAIN worker :
        \A seq \in DataSent(tid) :
            seq > 0 => <<tid[1], seq - 1>> \in ackRecv

\* ---- C2 -------------------------------------------------------------------
\* C2 (loss recovery): when the transport has dropped one DATA packet once and
\* delivered everything else, every part ends Reassembled and the output file
\* is byte-identical to the source file.
C2_LossRecovery ==
    (dfpc = "done" /\ exists /\ faultLog = SetToBag({<<"loss", "DATA">>})) =>
        /\ \A p \in Parts : partResult[p]
        /\ outFile = FileBytes

\* ---- C3 -------------------------------------------------------------------
\* C3 (retry bound): a sender that has received no ACK does not reach
\* Completed (it ends in Error once its retries are used up).
C3_RetryBound ==
    \A tid \in DOMAIN active_transfers :
        active_transfers[tid].status = "completed" =>
            \E seq \in -1 .. MaxSize : <<tid[1], seq>> \in ackRecv

\* ---- C4 -------------------------------------------------------------------
\* C4 (whole-file success): the file name is in processed_files (download_file
\* returned True) only if every part was Reassembled and the size matches.
C4_WholeFileSuccess ==
    (dfpc = "done" /\ FileName \in processed_files) =>
        /\ dfResult
        /\ \A p \in Parts : partResult[p]
        /\ Len(outFile) = size

\* ---- C5 -------------------------------------------------------------------
\* C5 (no silent corruption): whenever the file name is in processed_files,
\* every byte of the output file equals the byte of the source file.
C5_NoSilentCorruption ==
    (exists /\ FileName \in processed_files) => outFile = FileBytes

\* ---- C6 -------------------------------------------------------------------
StartSeen(p) == \E i \in 1 .. Len(recvLog[p]) : recvLog[p][i].type = "START"

\* C6 (completeness): a part whose receiver saw START is treated as
\* Reassembled if and only if its stored sequence set is exactly
\* {0, ..., total_chunks - 1}.
C6_Completeness ==
    \A p \in Parts :
        (ppc[p] = "done" /\ StartSeen(p)) =>
            (partResult[p] <=>
                DOMAIN received_data[p] = 0 .. (total_chunks_ref[p] - 1))

\* ---- C7 -------------------------------------------------------------------
Last(s) == s[Len(s)]

\* This step, the receive thread of p processed the packet Last(recvLog'[p]).
Processed(p) == Len(recvLog'[p]) = Len(recvLog[p]) + 1

\* C7 (idempotent ACK): when a valid DATA(seq) is delivered whose payload is
\* already stored under seq, the chunk map and the progress record stay as
\* they are and one more ACK(seq) is sent.
C7_IdempotentAck ==
    [][\A p \in Parts :
          (/\ Processed(p)
           /\ Last(recvLog'[p]).type = "DATA"
           /\ Md5(Last(recvLog'[p]).data) = Last(recvLog'[p]).checksum
           /\ Last(recvLog'[p]).sequence \in DOMAIN received_data[p]
           /\ received_data[p][Last(recvLog'[p]).sequence] = Last(recvLog'[p]).data)
          => /\ received_data'[p] = received_data[p]
             /\ progress'[p] = progress[p]
             /\ c2s'[p] = Append(c2s[p], AckPacket(Last(recvLog'[p]).sequence))]_vars

\* The same valid DATA packet was processed twice by one receive thread.
C7_Witness ==
    \E p \in Parts :
        \E i, j \in 1 .. Len(recvLog[p]) :
            /\ i < j
            /\ recvLog[p][i] = recvLog[p][j]
            /\ recvLog[p][i].type = "DATA"
            /\ Md5(recvLog[p][i].data) = recvLog[p][i].checksum
            /\ progress[p][1] = SumLens(received_data[p])
            /\ progress[p][1] > 0

\* ---- C8 -------------------------------------------------------------------
\* C8 (checksum-gated acceptance): a DATA packet whose checksum does not match
\* its payload leaves the chunk map unchanged and is answered with
\* NACK(sequence) only; every stored chunk is the payload of a processed DATA
\* packet whose checksum matched.
C8_ChecksumGate ==
    /\ [](\A p \in Parts : \A seq \in DOMAIN received_data[p] :
             \E i \in 1 .. Len(recvLog[p]) :
                 /\ recvLog[p][i].type = "DATA"
                 /\ recvLog[p][i].sequence = seq
                 /\ recvLog[p][i].data = received_data[p][seq]
                 /\ Md5(recvLog[p][i].data) = recvLog[p][i].checksum)
    /\ [][\A p \in Parts :
             (/\ Processed(p)
              /\ Last(recvLog'[p]).type = "DATA"
              /\ Md5(Last(recvLog'[p]).data) # Last(recvLog'[p]).checksum)
             => /\ received_data'[p] = received_data[p]
                /\ c2s'[p] = Append(c2s[p], NackPacket(Last(recvLog'[p]).sequence))]_vars

\* A damaged DATA packet was processed, and its NACK is on the way or queued.
C8_Witness ==
    \E p \in Parts :
        /\ recvLog[p] # <<>>
        /\ Last(recvLog[p]).type = "DATA"
        /\ Md5(Last(recvLog[p]).data) # Last(recvLog[p]).checksum
        /\ c2s[p] # <<>>
        /\ Last(c2s[p]) = NackPacket(Last(recvLog[p]).sequence)
        /\ Last(recvLog[p]).sequence \notin DOMAIN received_data[p]

\* ---- C9 -------------------------------------------------------------------
TileRange(i) == t_offsets[i] .. (t_offsets[i] + t_lengths[i] - 1)

TileDone == t_i = NumPartsOf(t_cfg)

\* C9 (range tiling): the (offset, length) pairs computed by download_file are
\* pairwise disjoint, cover exactly [0, size), and every part but the last has
\* length size // num_parts.
C9_RangeTiling ==
    TileDone =>
        /\ Len(t_offsets) = NumPartsOf(t_cfg)
        /\ Len(t_lengths) = NumPartsOf(t_cfg)
        /\ \A i \in 1 .. t_i : t_lengths[i] >= 0
        /\ \A i, j \in 1 .. t_i : i # j => TileRange(i) \cap TileRange(j) = {}
        /\ UNION {TileRange(i) : i \in 1 .. t_i} = 0 .. (t_size - 1)
        /\ \A i \in 1 .. (t_i - 1) : t_lengths[i] = t_size \div NumPartsOf(t_cfg)

\* The loop has run for four parts on a size that leaves a remainder.
C9_Witness ==
    /\ TileDone
    /\ NumPartsOf(t_cfg) = 4
    /\ t_size % 4 # 0
    /\ t_lengths[4] > t_lengths[1]
    /\ t_lengths[1] > 0

\* ---- C10 ------------------------------------------------------------------
\* C10 as amended (not-found): for a file that does not exist the worker sends
\* ERROR and nothing else; the transfer entry the DOWNLOAD registered only
\* goes from 'starting' to 'error' and its chunk cache stays empty.
C10_NotFoundAmended ==
    ~exists =>
        \A tid \in DOMAIN worker :
            /\ tid \in DOMAIN active_transfers =>
                  /\ active_transfers[tid].status \in {"starting", "error"}
                  /\ active_transfers[tid].status = "error" =>
                        sent[tid] = <<<<"ERROR", 0>>>>
            /\ tid \in DOMAIN transfer_chunks => transfer_chunks[tid] = <<>>
            /\ sent[tid] = IF worker[tid].pc = "open" THEN <<>>
                           ELSE <<<<"ERROR", 0>>>>

\* The ERROR packet of a missing file reached a part, and the transfer entry
\* is registered with status 'error'.
C10_Witness ==
    /\ ~exists
    /\ \E tid \in DOMAIN active_transfers :
          /\ active_transfers[tid].status = "error"
          /\ recvLog[tid[1]] = <<ErrorPacket>>

\* C10 as stated: a DOWNLOAD for a missing file at no time creates a Transfer
\* entry in active_transfers or transfer_chunks.
C10_NoTransferCreated ==
    ~exists => (DOMAIN active_transfers = {} /\ DOMAIN transfer_chunks = {})

\* ---- C11 ------------------------------------------------------------------
\* This step, client_processor took a NACK off the queue of key whose
\* transfer is registered and whose chunk is cached.
NackProcessed(key) ==
    /\ key \in DOMAIN client_queues
    /\ client_queues[key] # <<>>
    /\ Head(client_queues[key]).type = "NACK"
    /\ client_queues'[key] = Tail(client_queues[key])
    /\ \E tid \in Matching(key, Head(client_queues[key]).file_name) :
          /\ tid \in DOMAIN transfer_chunks
          /\ Head(client_queues[key]).sequence \in DOMAIN transfer_chunks[tid]

\* C11 (NACK resend): processing NACK(seq) for a registered transfer with a
\* cached record for seq sends one DATA packet of that sequence with the
\* cached payload and checksum, and leaves the session worker free to go on
\* with the next queued packet.
C11_NackResend ==
    [][\A p \in Parts :
          NackProcessed(ClientKey(p)) =>
              LET seq == Head(client_queues[ClientKey(p)]).sequence
              IN /\ \E tid \in Matching(ClientKey(p), FileName) :
                       /\ sent'[tid] = Append(sent[tid], <<"DATA", seq>>)
                       /\ s2c'[p] = SendToClient(s2c, p,
                             <<DataPacket(seq, transfer_chunks[tid][seq].data,
                                          transfer_chunks[tid][seq].checksum)>>)[p]
                 /\ ~lock'.held]_vars

\* ---- C12 ------------------------------------------------------------------
\* C12 (Completed implies delivered): a transfer has status 'completed' only
\* if the receiver of its part holds exactly the sequence numbers
\* 0 .. total_chunks - 1.
C12_CompletedImpliesDelivered ==
    \A tid \in DOMAIN active_transfers :
        active_transfers[tid].status = "completed" =>
            DOMAIN received_data[tid[1]] =
                0 .. (active_transfers[tid].total_chunks - 1)

\* ---- C13 ------------------------------------------------------------------
\* The receive thread of p gave up after MAX_TIMEOUTS consecutive timeouts.
TimedOut(p) == rthread[p] = "exited" /\ timeout_count[p] >= MAX_TIMEOUTS

\* The byte range of part p in the output file.
PartRange(p) ==
    (PartOffset(p, size, num_parts) + 1) ..
        (PartOffset(p, size, num_parts) + PartLength(p, size, num_parts))

\* C13 (receiver timeout ceiling): a part whose receive thread gave up after
\* MAX_TIMEOUTS consecutive timeouts is reported Incomplete and nothing of it
\* is written, whatever it has stored and whether or not END was received.
C13_TimeoutCeiling ==
    \A p \in Parts :
        (ppc[p] = "done" /\ TimedOut(p)) =>
            /\ ~partResult[p]
            /\ \A i \in PartRange(p) : outFile[i] = 0

\* ---- C14 ------------------------------------------------------------------
\* C14 as amended (lock discipline): every access to active_transfers and
\* transfer_chunks and every write of client_queues is made under the lock;
\* the only accesses outside it are the look-ups of an existing queue in
\* client_queues by the receiver loop (put) and the session worker (get).
C14_LockDisciplineAmended ==
    \A a \in unlocked :
        /\ a[2] = "client_queues"
        /\ a[3] = "read"
        /\ a[1] \in {"receiver_thread", "client_processor"}

\* A transfer ran from registration to eviction, every code path of the
\* server touching the shared maps on the way.
C14_Witness ==
    /\ unlocked = {<<"receiver_thread", "client_queues", "read">>,
                   <<"client_processor", "client_queues", "read">>}
    /\ \E tid \in DOMAIN worker :
          /\ worker[tid].pc = "gone"
          /\ \E i \in 1 .. Len(sent[tid]) : sent[tid][i][1] = "DATA"

\* C14 as stated: every read and write of the three shared maps is made
\* while holding the lock.
C14_LockDiscipline == unlocked = {}

\* ---- C15 ------------------------------------------------------------------
\* The worker of tid has finished and left status 'completed' or 'error'.
Finished(tid) ==
    /\ tid \in DOMAIN active_transfers
    /\ active_transfers[tid].status \in {"completed", "error"}

Evicted(tid) ==
    /\ tid \notin DOMAIN active_transfers
    /\ tid \notin DOMAIN transfer_chunks

\* C15 (eviction): every registered transfer whose worker has finished with
\* status 'completed' or 'error' is eventually removed from active_transfers
\* and transfer_chunks.
C15_Eviction == \A tid \in TransferIds : Finished(tid) ~> Evicted(tid)

C17_LockLiveness == lock.held ~> ~lock.held

\* ---- C18 ------------------------------------------------------------------
\* The sequence numbers of the valid DATA packets among the first n packets
\* the receive thread of p processed.
StoredAfter(p, n) ==
    {recvLog[p][i].sequence :
        i \in {j \in 1 .. n : /\ recvLog[p][j].type = "DATA"
                              /\ Md5(recvLog[p][j].data) = recvLog[p][j].checksum}}

\* The receive thread of p processed an END, after a START, while it held
\* fewer than total_chunks distinct sequences.
EndWithGap(p) ==
    \E i \in 1 .. Len(recvLog[p]) :
        /\ recvLog[p][i].type = "END"
        /\ \E j \in 1 .. (i - 1) : recvLog[p][j].type = "START"
        /\ Cardinality(StoredAfter(p, i - 1)) < total_chunks_ref[p]

\* C18 (END is decisive): a part whose receiver processed END while holding
\* fewer than total_chunks distinct sequences is never written and never
\* reported as Reassembled, whatever DATA arrives afterwards.
C18_EndDecisive ==
    \A p \in Parts :
        (ppc[p] = "done" /\ EndWithGap(p)) => ~partResult[p]

\* ---- C19 ------------------------------------------------------------------
\* The payloads of the DATA packets the worker of tid sent, in sending order.
StreamedBytes(tid) ==
    LET RECURSIVE Go(_)
        Go(i) == IF i > Len(sent[tid]) THEN <<>>
                 ELSE (IF sent[tid][i][1] = "DATA"
                       THEN ReadChunk(worker[tid].offset, sent[tid][i][2])
                       ELSE <<>>) \o Go(i + 1)
    IN Go(1)

\* C19 (requested range): a worker that has sent END for the DOWNLOAD of part
\* (offset, length) has streamed exactly the bytes file[offset, offset+length)
\* and announced total_chunks = ceil(length / chunk_size).
C19_RequestedRange ==
    \A tid \in DOMAIN worker :
        (exists /\ worker[tid].pc \in {"finally", "blocked", "gone"}) =>
            LET offset == PartOffset(tid[1], size, num_parts)
                length == PartLength(tid[1], size, num_parts)
            IN /\ worker[tid].offset = offset
               /\ StreamedBytes(tid) = SubSeq(FileBytes, offset + 1, offset + length)
               /\ worker[tid].total = (length + CHUNK_SIZE - 1) \div CHUNK_SIZE

C21_OwnTransferOnly ==
    \A p \in Parts :
        \A i \in 1 .. Len(recvLog[p]) :
            (recvLog[p][i].type = "DATA" /\ recvLog[p][i].file_name # FileName) =>
                \/ recvLog[p][i].sequence \notin DOMAIN received_data[p]
                \/ received_data[p][recvLog[p][i].sequence] # recvLog[p][i].data

\* ---- C22 ------------------------------------------------------------------
\* The chunks of a chunk map, concatenated in ascending sequence order.
JoinStored(rd) ==
    LET RECURSIVE Go(_)
        Go(S) == IF S = {} THEN <<>>
                 ELSE LET k == CHOOSE x \in S : \A y \in S : x <= y
                      IN rd[k] \o Go(S \ {k})
    IN Go(DOMAIN rd)

\* This step, download_part of p ended its wait and reported success.
PartWritten(p) == ppc[p] = "waiting" /\ ppc'[p] = "done" /\ partResult'[p]

\* C22 (confined writes): the write of a part changes only bytes of its own
\* range [offset, offset + length) and never the size of the file; the bytes
\* written are the stored chunks concatenated in ascending sequence order,
\* truncated to length.
C22_ConfinedWrites ==
    [][\A p \in Parts :
          PartWritten(p) =>
              LET offset == PartOffset(p, size, num_parts)
                  written == Take(JoinStored(received_data[p]),
                                  PartLength(p, size, num_parts))
              IN /\ Len(outFile') = Len(outFile)
                 /\ \A i \in 1 .. Len(outFile) :
                       i \notin PartRange(p) => outFile'[i] = outFile[i]
                 /\ \A k \in 1 .. Len(written) : outFile'[offset + k] = written[k]
                 /\ \A i \in PartRange(p) :
                       i > offset + Len(written) => outFile'[i] = outFile[i]]_vars

\* ---- C23 ------------------------------------------------------------------
\* C23 (pre-sizing): the destination file has exactly the reported size
\* before any part thread starts, and keeps that size at every later moment
\* until download_file returns, whatever the outcome of the parts.
C23_PreSizing ==
    (dfpc # "idle" \/ \E p \in Parts : ppc[p] # "idle") =>
        Len(outFile) = size

\* download_file has returned after one part wrote its bytes and another
\* failed.
C23_Witness ==
    /\ dfpc = "done"
    /\ size > 1
    /\ \E p, q \in Parts :
          /\ partResult[p]
          /\ \E i \in PartRange(p) : outFile[i] # 0
          /\ ~partResult[q]
    /\ Len(outFile) = size

\* ---- C24 ------------------------------------------------------------------
\* START, DATA 0 .. total - 1 in ascending order, END, as the log of a worker.
Framing(total) ==
    <<<<"START", 0>>>> \o [i \in 1 .. total |-> <<"DATA", i - 1>>]
        \o <<<<"END", total>>>>

IsPrefix(s, t) == Len(s) <= Len(t) /\ s = SubSeq(t, 1, Len(s))

\* C24 (framing order): in each transfer of an existing file the server
\* sends START first, then DATA 0, 1, ..., total_chunks - 1 in ascending
\* order without gaps, then END; the total_chunks announced in START is the
\* number of distinct DATA sequences sent, and no DATA is sent out of this
\* order except by a resend.
C24_FramingOrder ==
    exists =>
        \A tid \in DOMAIN worker :
            sent[tid] # <<>> =>
                /\ IsPrefix(sent[tid], Framing(worker[tid].total))
                /\ Last(sent[tid])[1] = "END" =>
                      Cardinality(DataSent(tid)) = worker[tid].total

\* A worker has sent the whole framing of a transfer of two chunks, the
\* second one short.
C24_Witness ==
    /\ exists
    /\ \E tid \in DOMAIN worker :
          /\ worker[tid].total = 2
          /\ sent[tid] = Framing(2)
          /\ Len(ReadChunk(worker[tid].offset, 1)) < CHUNK_SIZE

\* ---- C25 ------------------------------------------------------------------
\* The status transitions of a registered transfer.
StatusSteps ==
    {<<"starting", "in_progress">>, <<"starting", "error">>,
     <<"in_progress", "completed">>, <<"in_progress", "error">>}

\* C25 (status lifecycle): an entry of active_transfers is created with
\* status 'starting' and afterwards only goes starting -> in_progress,
\* starting -> error, in_progress -> completed or in_progress -> error; a
\* status 'completed' or 'error' stays until the entry is evicted.
C25_StatusLifecycle ==
    [][\A tid \in DOMAIN active_transfers' :
          IF tid \in DOMAIN active_transfers
          THEN \/ active_transfers'[tid].status = active_transfers[tid].status
               \/ <<active_transfers[tid].status, active_transfers'[tid].status>>
                      \in StatusSteps
          ELSE active_transfers'[tid].status = "starting"]_vars

\* A worker has sent END and left its entry 'completed', not yet evicted.
C25_Witness ==
    \E tid \in DOMAIN active_transfers :
        /\ active_transfers[tid].status = "completed"
        /\ worker[tid].pc = "finally"
        /\ Last(sent[tid])[1] = "END"

\* ---- C26 ------------------------------------------------------------------
\* C26 (resend cache coverage): for every DATA packet a worker has sent, the
\* chunk cache of its transfer holds, at every moment from the sending of the
\* packet until the transfer is evicted, a record with exactly the payload
\* and checksum sent: no record is overwritten with other content.
C26_CacheCoverage ==
    \A tid \in DOMAIN transfer_chunks :
        \A seq \in DataSent(tid) :
            /\ seq \in DOMAIN transfer_chunks[tid]
            /\ transfer_chunks[tid][seq].data = ReadChunk(worker[tid].offset, seq)
            /\ transfer_chunks[tid][seq].checksum =
                  Md5(ReadChunk(worker[tid].offset, seq))

\* A worker has finished a transfer of two chunks and both are cached, the
\* transfer not yet evicted; a second transfer of the same key has cached
\* its first chunk.
C26_Witness ==
    \E tid, other \in DOMAIN transfer_chunks :
        /\ tid # other
        /\ tid[1] = other[1]
        /\ worker[tid].pc = "finally"
        /\ DataSent(tid) = {0, 1}
        /\ DOMAIN transfer_chunks[tid] = {0, 1}
        /\ DOMAIN transfer_chunks[other] = {0}

\* ---- C27 ------------------------------------------------------------------
\* This step, the receiver loop took a datagram of part p off the socket.
Routed(p) ==
    /\ c2s[p] # <<>>
    /\ c2s'[p] = Tail(c2s[p])
    /\ client_queues' # client_queues

\* C27 (sessions): the server holds one queue (and session worker) per client
\* key, created by the first datagram of that key; a session is never
\* removed, and a datagram is enqueued in the queue of its own key only.
C27_Sessions ==
    [][/\ DOMAIN client_queues \subseteq DOMAIN client_queues'
       /\ \A key \in DOMAIN client_queues' \ DOMAIN client_queues :
             /\ key \in Parts
             /\ Routed(key)
             /\ client_queues'[key] = <<Head(c2s[key])>>
       /\ \A p \in Parts :
             Routed(p) =>
                 /\ p \in DOMAIN client_queues'
                 /\ client_queues'[p] =
                       (IF p \in DOMAIN client_queues THEN client_queues[p] ELSE <<>>)
                          \o <<Head(c2s[p])>>
                 /\ \A key \in DOMAIN client_queues :
                       key # p => client_queues'[key] = client_queues[key]]_vars

\* Every part has its session; one of them has served a DOWNLOAD and holds
\* a later datagram in its queue, the other holds its own.
C27_Witness ==
    /\ DOMAIN client_queues = Parts
    /\ \E p, q \in Parts :
          /\ p # q
          /\ \E tid \in DOMAIN worker : tid[1] = p
          /\ client_queues[p] # <<>>
          /\ client_queues[q] # <<>>

\* ---- C28 ------------------------------------------------------------------
\* C28 (duplicate START): a START that the receive thread of a part has
\* processed before is ACKed again and leaves the stored chunk map, the
\* progress record and total_chunks as they are.
C28_DuplicateStart ==
    [][\A p \in Parts :
          (/\ Processed(p)
           /\ Last(recvLog'[p]).type = "START"
           /\ \E i \in 1 .. Len(recvLog[p]) : recvLog[p][i] = Last(recvLog'[p]))
          => /\ received_data'[p] = received_data[p]
             /\ progress'[p] = progress[p]
             /\ total_chunks_ref'[p] = total_chunks_ref[p]
             /\ c2s'[p] = Append(c2s[p], AckPacket(0))]_vars

\* A part processed START, stored a chunk, and processed the same START
\* again: the chunk, the progress and the total are still there.
C28_Witness ==
    \E p \in Parts :
        \E i, j, k \in 1 .. Len(recvLog[p]) :
            /\ i < j /\ j < k
            /\ recvLog[p][i].type = "START"
            /\ recvLog[p][j].type = "DATA"
            /\ recvLog[p][j].file_name = FileName
            /\ Md5(recvLog[p][j].data) = recvLog[p][j].checksum
            /\ recvLog[p][k] = recvLog[p][i]
            /\ k = Len(recvLog[p])
            /\ recvLog[p][j].sequence \in DOMAIN received_data[p]
            /\ progress[p][1] > 0
            /\ total_chunks_ref[p] = recvLog[p][i].total_chunks
            /\ Len(c2s[p]) = Len(recvLog[p])

\* ---- C29 ------------------------------------------------------------------
\* This step, client_processor took a NACK off the queue of key whose
\* transfer is registered and has no cached record for the sequence.
NackMissing(key) ==
    /\ key \in DOMAIN client_queues
    /\ client_queues[key] # <<>>
    /\ Head(client_queues[key]).type = "NACK"
    /\ client_queues'[key] = Tail(client_queues[key])
    /\ Matching(key, Head(client_queues[key]).file_name) # {}
    /\ LET tid == FirstMatching(key, Head(client_queues[key]).file_name)
       IN /\ tid \in DOMAIN transfer_chunks
          /\ Head(client_queues[key]).sequence \notin DOMAIN transfer_chunks[tid]

\* C29 (missing cache record): processing NACK(seq) for a transfer whose
\* cache has no record for seq sends no packet, leaves active_transfers and
\* transfer_chunks unchanged, and leaves the session worker free to process
\* its next queued packet.
C29_MissingRecord ==
    [][\A p \in Parts :
          NackMissing(ClientKey(p)) =>
              /\ s2c' = s2c
              /\ sent' = sent
              /\ active_transfers' = active_transfers
              /\ transfer_chunks' = transfer_chunks
              /\ ~lock'.held]_vars

\* ---- C30 ------------------------------------------------------------------
\* This step, the receiver loop of the server took an undecodable datagram of
\* part p off the socket.
ServerGotRaw(p) ==
    /\ c2s[p] # <<>>
    /\ ~Parses(Head(c2s[p]))
    /\ c2s'[p] = Tail(c2s[p])

\* This step, the receive thread of part p took an undecodable datagram.
ClientGotRaw(p) == Processed(p) /\ ~Parses(Last(recvLog'[p]))

\* C30 (malformed datagrams are dropped): an undecodable datagram creates no
\* session on the server, changes no transfer or cache state on either peer,
\* stores no chunk on the client, and terminates neither the receiver loop,
\* nor a session worker, nor the receiver of a part.
C30_MalformedDropped ==
    [][\A p \in Parts :
          /\ ServerGotRaw(p) =>
                /\ client_queues' = client_queues
                /\ active_transfers' = active_transfers
                /\ transfer_chunks' = transfer_chunks
                /\ worker' = worker
                /\ lock' = lock
          /\ ClientGotRaw(p) =>
                /\ received_data' = received_data
                /\ total_chunks_ref' = total_chunks_ref
                /\ progress' = progress
                /\ completion_event' = completion_event
                /\ c2s' = c2s
                /\ rthread'[p] = rthread[p]]_vars

\* ---- C31 ------------------------------------------------------------------
\* The receive thread of p processed an ERROR packet.
ErrorSeen(p) == \E i \in 1 .. Len(recvLog[p]) : recvLog[p][i].type = "ERROR"

\* C31 (ERROR at the client): when a part has received an ERROR packet, the
\* download of the file is marked failed: download_file returns False and
\* the file name is not added to processed_files.
C31_ErrorFailsDownload ==
    (dfpc = "done" /\ \E p \in Parts : ErrorSeen(p)) =>
        /\ ~dfResult
        /\ FileName \notin processed_files

\* ---- C32 ------------------------------------------------------------------
\* This step is one scan cycle of watch_input_file.
ScanCycle == w_cycle' = w_cycle + 1

\* C32 (retry of failed files): a listed file whose download failed (it was
\* attempted and is not in processed_files) is attempted again on the next
\* scan cycle, and a file in processed_files is never downloaded again.
C32_RetryFailed ==
    [][ScanCycle =>
          \A f \in w_listed :
              /\ (w_attempts[f] > 0 /\ f \notin processed_files) =>
                    w_attempts'[f] = w_attempts[f] + 1
              /\ f \in processed_files => w_attempts'[f] = w_attempts[f]]_vars

\* ---- C33 ------------------------------------------------------------------
\* C33 (progress bound): for every part and at every moment the progress
\* record (received_bytes, total_bytes) has 0 <= received_bytes <= total_bytes.
C33_ProgressBound ==
    \A p \in Parts :
        /\ 0 <= progress[p][1]
        /\ progress[p][1] <= progress[p][2]

\* ---- C34 ------------------------------------------------------------------
\* In this step worker w takes a datagram off the server socket.
WorkerReads(w) ==
    /\ u_worker[w].pc = "wait"
    /\ u_worker'[w].pc = "send"
    /\ u_srv_sock # <<>>
    /\ u_srv_sock' = Tail(u_srv_sock)

\* In this step worker w accepts a datagram as the ACK it waits for and goes
\* on to the next packet (bytes_sent is not taken back).
WorkerAdvances(w) ==
    /\ WorkerReads(w)
    /\ u_worker'[w].bytes_sent = u_worker[w].bytes_sent

\* C34 (ACK for the packet sent): send_file_chunk goes on from packet seq to
\* packet seq+1 only on an ACK whose seq_num is seq; a delayed or duplicate
\* ACK with another seq_num does not advance the sender.
C34_AckForSeq ==
    [][\A w \in UChunkIds :
          WorkerAdvances(w) => Head(u_srv_sock).seq_num = AwaitedSeq(w)]_vars

\* ---- C35 ------------------------------------------------------------------
\* In this step the main loop of UDPServer.run takes a datagram off the
\* server socket.
MainReads ==
    /\ u_srv_sock # <<>>
    /\ u_srv_sock' = Tail(u_srv_sock)
    /\ \A w \in UChunkIds : ~WorkerReads(w)

\* C35 (one designated reader): every datagram of the server socket is read
\* by its designated reader: a request by the main loop, an ACK of chunk c by
\* the worker sending chunk c, never by the main loop or another worker.
C35_DesignatedReader ==
    [][/\ MainReads => Head(u_srv_sock).type # "ack"
       /\ \A w \in UChunkIds :
             WorkerReads(w) => ValidAck(Head(u_srv_sock), w)]_vars

\* ---- C36 ------------------------------------------------------------------
\* In this step chunk thread c processes the next datagram of the client
\* socket.
ThreadProcesses(c) ==
    /\ u_thread[c].pc = "recv"
    /\ u_cli_sock # <<>>
    /\ u_cli_sock' = Tail(u_cli_sock)
    /\ u_thread'[c] # u_thread[c]

\* In this step chunk thread c writes data to its part file.
ThreadWrites(c) ==
    /\ ThreadProcesses(c)
    /\ u_thread'[c].part # u_thread[c].part

\* C36 (write once, in order): download_chunk writes the data of each
\* seq_num of its chunk at most once and in ascending seq_num order, also
\* when the server sends a packet again.
C36_WriteOnceInOrder ==
    [][\A c \in UChunkIds :
          (ThreadWrites(c) /\ Head(u_cli_sock).chunk_id = c) =>
              Head(u_cli_sock).seq_num > u_last[c]]_vars

\* ---- C37 ------------------------------------------------------------------
\* C37 (own chunk only): a data or end packet with chunk_id c is processed
\* only by the thread that downloads chunk c.
C37_OwnChunkOnly ==
    [][\A c \in UChunkIds :
          (ThreadProcesses(c) /\ Head(u_cli_sock).type \in {"data", "end"}) =>
              Head(u_cli_sock).chunk_id = c]_vars

====
